---- MODULE Spec2Model ----
(***************************************************************************)
(* Model of mitempr: the watchdog-supervised BLE discovery loop and the    *)
(* event-processing loop of src/main.rs, and the advertisement classifier  *)
(* and decoders of src/decoder.rs.                                         *)
(*                                                                         *)
(* Time is discrete (one unit = one second).  An Instant is represented by *)
(* its age (the value Instant::elapsed() would return), a running sleep by *)
(* the time it still has to wait.  Ages saturate at MaxAge.                *)
(***************************************************************************)
EXTENDS Integers, Sequences, FiniteSets, TLC

\* ------------------------------------------------------------------ bounds
MaxAge == 25          \* ages of Instants saturate here
MaxQueue == 2         \* notifications waiting in the unbounded channel
MaxRestarts == 3      \* restart_counter is not driven past this value
MaxLen == 19          \* longest generated fixed-layout payload
MaxRecords == 2       \* records in a generated tag/value payload
MaxCut == 2           \* bytes cut off the end of a tag/value payload

\* --------------------------------------------------------- program values
watchdog == 12        \* Args::watchdog, as given by --watchdog 12
cooldown == 3         \* Args::cooldown, as given by --cooldown 3
PollInterval == 5     \* sleep(Duration::from_secs(5)) in the select loop
ReinitDelay == 2      \* sleep(Duration::from_secs(2)) after the inner loop

Address == {"a1"}

Min(a, b) == IF a < b THEN a ELSE b
Max(a, b) == IF a > b THEN a ELSE b

\* Option<T>: None is the empty sequence, Some(v) the singleton
None == << >>
Some(v) == << v >>

VARIABLES
    sup_pc,            \* position of the discovery + watchdog task
    sleep_left,        \* time left of the sleep the task is awaiting
    events,            \* TRUE while the task owns a discovery stream (the
                       \* binding `events` of main.rs:55 is alive)
    restart_counter,
    last_ble_packet,   \* age of the Instant in last_ble_packet
    rx,                \* contents of the unbounded channel tx -> rx
    seen_devices,
    router_pc,         \* position of the event processing loop
    cur_addr,          \* addr of the notification being processed
    data_map,          \* service data fetched by handle_device
    out,               \* last sensor reading printed by handle_device
    restarts_at_decode,\* history: restart_counter at the last decode success
    since_scan_end,    \* history: time since the select loop was left
    note,              \* history: per address, what the event loop last did
                       \* with a notification for it: "none", "added",
                       \* "removed", "readded" (added right after removed),
                       \* "dup" (added while in seen_devices),
                       \* "dup_carried" (the same, in a later session than
                       \* the one the address was seen in),
                       \* "fetch_failed" (added, and handle_device returned
                       \* an error), "dup_failed" (added again after that)
    carried,           \* history: the addresses that were in seen_devices
                       \* when the select loop was last left and have not
                       \* been removed since
    seen_lock,         \* holder of the Mutex around seen_devices
    ts_lock,           \* holder of the Mutex around last_ble_packet
    props,             \* decoder.rs: the advertisement given to the pipeline
    dec_pc,            \* decoder.rs: "ready", "returned" or "panicked"
    packet_type,       \* decoder.rs: classification of props ("-" before)
    data_option,       \* decoder.rs: payload returned with the classification
    dec_result,        \* decoder.rs: Some(what the format's handler did)
    printed            \* decoder.rs: reading given to output_sensor_data

supVars == << sup_pc, sleep_left, events, restart_counter >>
routerVars == << rx, seen_devices, router_pc, cur_addr, data_map, out >>
histVars == << restarts_at_decode, since_scan_end, note, carried >>
decVars == << props, dec_pc, packet_type, data_option, dec_result, printed >>
lockVars == << seen_lock, ts_lock >>
vars == << supVars, last_ble_packet, routerVars, histVars, decVars, lockVars >>

\* ============================================================ decoder.rs
\* Service UUIDs, by their 16-bit short form
MIJIA_SERVICE_UUID == 65173     \* 0xFE95
BTHOME_SERVICE_UUID == 64722    \* 0xFCD2
PVVX_SERVICE_UUID == 6170       \* 0x181A
RecognizedUuids == {MIJIA_SERVICE_UUID, BTHOME_SERVICE_UUID, PVVX_SERVICE_UUID}
OtherUuids == {6159}            \* 0x180F, a service the decoder does not know
OTHER_SERVICE_UUID == CHOOSE u \in OtherUuids : TRUE
Uuid == RecognizedUuids \cup OtherUuids
BTHOME_V2_PREAMBLE == << 22, 210, 252, 64 >>

\* SensorData: temperature and humidity in hundredths, voltage in
\* thousandths (the exact decimal value of the f32 quotient the code forms)
SensorData(t, h, b, v) ==
    [temperature |-> t, humidity |-> h, battery |-> b, voltage |-> v]
NoFields == SensorData(None, None, None, None)

\* A handler's behaviour: kind "Ok" (a reading is returned), "Err" (a decode
\* failure is returned) or "Panic" (an index out of range aborts the call);
\* reads is the set of payload offsets the handler indexes.
Outcome(k, r, rd) == [kind |-> k, reading |-> r, reads |-> rd]

\* data[i] and data[a..b] of a Vec<u8>, offsets from 0
Byte(data, i) == IF i < Len(data) THEN data[i + 1] ELSE 0
InBounds(data, idx) == \A i \in idx : i < Len(data)
u16_from_le_bytes(lo, hi) == lo + 256 * hi
i16_from_le_bytes(lo, hi) ==
    IF lo + 256 * hi >= 32768 THEN lo + 256 * hi - 65536 ELSE lo + 256 * hi

\* HashMap::get
Get(map, key) == IF key \in DOMAIN map THEN Some(map[key]) ELSE None

\* get_packet_type with the BTHome check moved in front of the Mijia check
get_packet_type_bthome_first(p) ==
    IF Get(p.service_data, BTHOME_SERVICE_UUID) # None
    THEN [type |-> "BTHome", data |-> Get(p.service_data, BTHOME_SERVICE_UUID)]
    ELSE IF Get(p.service_data, MIJIA_SERVICE_UUID) # None
    THEN [type |-> "Mijia", data |-> Get(p.service_data, MIJIA_SERVICE_UUID)]
    ELSE IF Get(p.service_data, PVVX_SERVICE_UUID) # None
    THEN [type |-> "Pvvx", data |-> Get(p.service_data, PVVX_SERVICE_UUID)]
    ELSE [type |-> "Other", data |-> None]

\* get_packet_type that takes any remaining service data for a PVVX payload
get_packet_type_any_is_pvvx(p) ==
    IF Get(p.service_data, MIJIA_SERVICE_UUID) # None
    THEN [type |-> "Mijia", data |-> Get(p.service_data, MIJIA_SERVICE_UUID)]
    ELSE IF Get(p.service_data, BTHOME_SERVICE_UUID) # None
    THEN [type |-> "BTHome", data |-> Get(p.service_data, BTHOME_SERVICE_UUID)]
    ELSE IF DOMAIN p.service_data # {}
    THEN [type |-> "Pvvx",
          data |-> Some(p.service_data[CHOOSE u \in DOMAIN p.service_data : TRUE])]
    ELSE [type |-> "Other", data |-> None]

get_packet_type(p) ==
    IF Get(p.service_data, MIJIA_SERVICE_UUID) # None
    THEN [type |-> "Mijia", data |-> Get(p.service_data, MIJIA_SERVICE_UUID)]
    ELSE IF Get(p.service_data, BTHOME_SERVICE_UUID) # None
    THEN [type |-> "BTHome", data |-> Get(p.service_data, BTHOME_SERVICE_UUID)]
    ELSE IF Get(p.service_data, PVVX_SERVICE_UUID) # None
    THEN [type |-> "Pvvx", data |-> Get(p.service_data, PVVX_SERVICE_UUID)]
    ELSE [type |-> "Other", data |-> None]

MIN_LENGTH == 15
MAC_LENGTH == 6

\* handle_pvvx_packet taking the battery percent one byte too far (data[13])
handle_pvvx_packet_battery_at_13(data) ==
    IF Len(data) < MIN_LENGTH
    THEN Outcome("Err", NoFields, {})
    ELSE LET rd == (MAC_LENGTH + 0) .. (MAC_LENGTH + 7)
         IN IF ~InBounds(data, rd)
            THEN Outcome("Panic", NoFields, rd)
            ELSE Outcome("Ok",
                   SensorData(
                     Some(i16_from_le_bytes(Byte(data, MAC_LENGTH + 0),
                                            Byte(data, MAC_LENGTH + 1))),
                     Some(u16_from_le_bytes(Byte(data, MAC_LENGTH + 2),
                                            Byte(data, MAC_LENGTH + 3))),
                     Some(Byte(data, MAC_LENGTH + 7)),
                     Some(u16_from_le_bytes(Byte(data, MAC_LENGTH + 4),
                                            Byte(data, MAC_LENGTH + 5)))),
                   rd)

handle_pvvx_packet(data) ==
    IF Len(data) < MIN_LENGTH
    THEN Outcome("Err", NoFields, {})
    ELSE LET rd == (MAC_LENGTH + 0) .. (MAC_LENGTH + 6)
         IN IF ~InBounds(data, rd)
            THEN Outcome("Panic", NoFields, rd)
            ELSE Outcome("Ok",
                   SensorData(
                     Some(i16_from_le_bytes(Byte(data, MAC_LENGTH + 0),
                                            Byte(data, MAC_LENGTH + 1))),
                     Some(u16_from_le_bytes(Byte(data, MAC_LENGTH + 2),
                                            Byte(data, MAC_LENGTH + 3))),
                     Some(Byte(data, MAC_LENGTH + 6)),
                     Some(u16_from_le_bytes(Byte(data, MAC_LENGTH + 4),
                                            Byte(data, MAC_LENGTH + 5)))),
                   rd)

\* The while loop with an unknown tag skipping the tag byte only
RECURSIVE bthome_loop_unknown_skips_one(_, _, _, _)
bthome_loop_unknown_skips_one(data, i, result, rd) ==
    IF ~(i < Len(data)) \/ i + 1 >= Len(data)
    THEN Outcome(IF InBounds(data, rd) THEN "Ok" ELSE "Panic", result, rd)
    ELSE LET tag == Byte(data, i) IN
      IF tag = 1
      THEN bthome_loop_unknown_skips_one(data, i + 2,
              [result EXCEPT !.battery = Some(Byte(data, i + 1))],
              rd \cup {i, i + 1})
      ELSE IF tag \in {2, 3, 12}
      THEN IF i + 2 >= Len(data)
           THEN Outcome(IF InBounds(data, rd \cup {i}) THEN "Ok" ELSE "Panic",
                        result, rd \cup {i})
           ELSE bthome_loop_unknown_skips_one(data, i + 3,
                  IF tag = 2
                  THEN [result EXCEPT !.temperature =
                          Some(i16_from_le_bytes(Byte(data, i + 1),
                                                 Byte(data, i + 2)))]
                  ELSE IF tag = 3
                  THEN [result EXCEPT !.humidity =
                          Some(u16_from_le_bytes(Byte(data, i + 1),
                                                 Byte(data, i + 2)))]
                  ELSE [result EXCEPT !.voltage =
                          Some(u16_from_le_bytes(Byte(data, i + 1),
                                                 Byte(data, i + 2)))],
                  rd \cup {i, i + 1, i + 2})
      ELSE bthome_loop_unknown_skips_one(data, i + 1, result, rd \cup {i})

\* The while loop of handle_bthome_packet, from position i with the fields
\* and the offsets read so far
RECURSIVE bthome_loop(_, _, _, _)
bthome_loop(data, i, result, rd) ==
    IF ~(i < Len(data)) \/ i + 1 >= Len(data)
    THEN Outcome(IF InBounds(data, rd) THEN "Ok" ELSE "Panic", result, rd)
    ELSE LET tag == Byte(data, i) IN
      IF tag = 1
      THEN bthome_loop(data, i + 2,
              [result EXCEPT !.battery = Some(Byte(data, i + 1))],
              rd \cup {i, i + 1})
      ELSE IF tag \in {2, 3, 12}
      THEN IF i + 2 >= Len(data)
           THEN Outcome(IF InBounds(data, rd \cup {i}) THEN "Ok" ELSE "Panic",
                        result, rd \cup {i})
           ELSE bthome_loop(data, i + 3,
                  IF tag = 2
                  THEN [result EXCEPT !.temperature =
                          Some(i16_from_le_bytes(Byte(data, i + 1),
                                                 Byte(data, i + 2)))]
                  ELSE IF tag = 3
                  THEN [result EXCEPT !.humidity =
                          Some(u16_from_le_bytes(Byte(data, i + 1),
                                                 Byte(data, i + 2)))]
                  ELSE [result EXCEPT !.voltage =
                          Some(u16_from_le_bytes(Byte(data, i + 1),
                                                 Byte(data, i + 2)))],
                  rd \cup {i, i + 1, i + 2})
      ELSE bthome_loop(data, i + 2, result, rd \cup {i})

\* handle_bthome_packet that does not skip the first byte (let mut i = 0)
handle_bthome_packet_from_0(payload) ==
    LET all_data == BTHOME_V2_PREAMBLE \o payload
        data == SubSeq(all_data, 4 + 1, Len(all_data))
    IN bthome_loop(data, 0, NoFields, {})

handle_bthome_packet(payload) ==
    LET all_data == BTHOME_V2_PREAMBLE \o payload
        data == SubSeq(all_data, 4 + 1, Len(all_data))
    IN bthome_loop(data, 1, NoFields, {})

TYPE_IDENTIFIER_OFFSET == 11

\* handle_lywsdcgq_packet whose 0x06 arm takes the humidity field of the
\* combined layout (HUMI_START = 16)
handle_lywsdcgq_packet_humi_at_16(data) ==
    IF Len(data) < TYPE_IDENTIFIER_OFFSET + 1
    THEN Outcome("Err", NoFields, {})
    ELSE LET type_identifier == Byte(data, TYPE_IDENTIFIER_OFFSET)
             tid == {TYPE_IDENTIFIER_OFFSET}
             Read(idx, reading) ==
                 IF InBounds(data, idx)
                 THEN Outcome("Ok", reading, tid \cup idx)
                 ELSE Outcome("Panic", NoFields, tid \cup idx)
         IN IF type_identifier = 13 /\ Len(data) >= 18
            THEN Read(14 .. 17,
                   SensorData(
                     Some(i16_from_le_bytes(Byte(data, 14), Byte(data, 15)) * 10),
                     Some(u16_from_le_bytes(Byte(data, 16), Byte(data, 17)) * 10),
                     None, None))
            ELSE IF type_identifier = 4 /\ Len(data) >= 16
            THEN Read(14 .. 15,
                   SensorData(
                     Some(i16_from_le_bytes(Byte(data, 14), Byte(data, 15)) * 10),
                     None, None, None))
            ELSE IF type_identifier = 10 /\ Len(data) >= 13
            THEN Read({14},
                   SensorData(None, None, Some(Byte(data, 14)), None))
            ELSE IF type_identifier = 6 /\ Len(data) >= 16
            THEN Read(16 .. 17,
                   SensorData(
                     None,
                     Some(u16_from_le_bytes(Byte(data, 16), Byte(data, 17)) * 10),
                     None, None))
            ELSE Outcome("Err", NoFields, tid)

handle_lywsdcgq_packet(data) ==
    IF Len(data) < TYPE_IDENTIFIER_OFFSET + 1
    THEN Outcome("Err", NoFields, {})
    ELSE LET type_identifier == Byte(data, TYPE_IDENTIFIER_OFFSET)
             tid == {TYPE_IDENTIFIER_OFFSET}
             Read(idx, reading) ==
                 IF InBounds(data, idx)
                 THEN Outcome("Ok", reading, tid \cup idx)
                 ELSE Outcome("Panic", NoFields, tid \cup idx)
         IN IF type_identifier = 13 /\ Len(data) >= 18
            THEN Read(14 .. 17,
                   SensorData(
                     Some(i16_from_le_bytes(Byte(data, 14), Byte(data, 15)) * 10),
                     Some(u16_from_le_bytes(Byte(data, 16), Byte(data, 17)) * 10),
                     None, None))
            ELSE IF type_identifier = 4 /\ Len(data) >= 16
            THEN Read(14 .. 15,
                   SensorData(
                     Some(i16_from_le_bytes(Byte(data, 14), Byte(data, 15)) * 10),
                     None, None, None))
            ELSE IF type_identifier = 10 /\ Len(data) >= 13
            THEN Read({14},
                   SensorData(None, None, Some(Byte(data, 14)), None))
            ELSE IF type_identifier = 6 /\ Len(data) >= 16
            THEN Read(14 .. 15,
                   SensorData(
                     None,
                     Some(u16_from_le_bytes(Byte(data, 14), Byte(data, 15)) * 10),
                     None, None))
            ELSE Outcome("Err", NoFields, tid)

\* ------------------------------------------------ inputs of the decoders
\* Fixed-layout payloads: every length, every type identifier at offset 11,
\* bytes that differ by offset
TypeIds == {13, 4, 6, 10, 5}
Fills == {3, 200}
GenPayload(len, tid, fill) ==
    [i \in 1 .. len |->
        IF i - 1 = TYPE_IDENTIFIER_OFFSET THEN tid ELSE (fill + 37 * i) % 256]
LayoutPayloads ==
    {GenPayload(len, tid, fill) : len \in 0 .. MaxLen, tid \in TypeIds,
                                   fill \in Fills}

\* Tag/value payloads: a header byte, then records, then a cut at the end
Records == {<<1, 100>>, <<2, 125, 9>>, <<2, 255, 255>>, <<3, 141, 24>>,
            <<12, 29, 9>>, <<0, 18>>, <<5, 1, 2>>}
RECURSIVE RecordStreams(_)
RecordStreams(n) ==
    IF n = 0 THEN {<< >>}
    ELSE RecordStreams(n - 1) \cup
         {s \o r : s \in RecordStreams(n - 1), r \in Records}
TlvPayloads ==
    {SubSeq(<<64>> \o s, 1, Max(0, 1 + Len(s) - cut)) :
        s \in RecordStreams(MaxRecords), cut \in 0 .. MaxCut}

\* The vectors of the specification
MijiaVector == <<80, 32, 170, 1, 245, 64, 113, 213, 168, 101, 76, 13, 16, 4,
                 234, 0, 97, 2>>
PvvxVector == <<3, 123, 160, 56, 193, 164, 242, 8, 25, 25, 29, 9, 16, 74, 5>>
BthomeVector == <<64, 0, 18, 1, 100, 2, 125, 9, 3, 141, 24>>

\* PVVX payloads with the measurement bytes 6..12 of the vector and other
\* MAC bytes, counter bytes and trailing bytes
PvvxPayloads ==
    {[i \in 1 .. len |->
        IF i - 1 \in MAC_LENGTH .. (MAC_LENGTH + 6) THEN PvvxVector[i]
        ELSE IF i - 1 < MAC_LENGTH THEN mac ELSE ctr] :
        len \in (MIN_LENGTH - 2) .. (MIN_LENGTH + 1), mac \in {0, 255},
        ctr \in {1, 254}}

Payloads == LayoutPayloads \cup TlvPayloads \cup PvvxPayloads
              \cup {MijiaVector, PvvxVector, BthomeVector}

\* Advertisements: one service with any payload, or any set of services
\* with one of two payloads each
fnOne(k, v) == [x \in {k} |-> v]
SinglePropsSet ==
    {[service_data |-> fnOne(u, p)] : u \in Uuid, p \in Payloads}
MultiPropsSet ==
    UNION {{[service_data |-> f] : f \in [D -> {PvvxVector, MijiaVector}]} :
             D \in SUBSET Uuid}
PropsSet == SinglePropsSet \cup MultiPropsSet

\* ------------------------------------------------- classify_and_decode
\* Result::unwrap and Option::unwrap: a decode failure aborts the caller
unwrap(r) == IF r.kind = "Ok" THEN "returned" ELSE "panicked"

ClassifyAndDecode ==
    /\ dec_pc = "ready"
    /\ LET c == get_packet_type(props)
           r == IF c.type = "Mijia" THEN Some(handle_lywsdcgq_packet(c.data[1]))
                ELSE IF c.type = "BTHome" THEN Some(handle_bthome_packet(c.data[1]))
                ELSE IF c.type = "Pvvx" THEN Some(handle_pvvx_packet(c.data[1]))
                ELSE None
       IN /\ packet_type' = c.type
          /\ data_option' = c.data
          /\ dec_result' = r
          /\ dec_pc' = IF r = None THEN "returned" ELSE unwrap(r[1])
          /\ printed' = IF r # None /\ unwrap(r[1]) = "returned"
                        THEN Some(r[1].reading) ELSE None
    /\ UNCHANGED props

\* The caller passes the next advertisement to the pipeline
NextAdvertisement ==
    /\ dec_pc = "returned"
    /\ props' \in PropsSet
    /\ dec_pc' = "ready"
    /\ packet_type' = "-"
    /\ data_option' = None
    /\ dec_result' = None
    /\ printed' = None

\* ================================================================ main.rs
\* AdapterEvent, as far as the loops distinguish its variants
DeviceAdded(addr) == [kind |-> "DeviceAdded", addr |-> addr]
DeviceRemoved(addr) == [kind |-> "DeviceRemoved", addr |-> addr]

\* What device.service_data() can answer: nothing, or a map with a PVVX
\* reading, a PVVX payload one byte short, an unknown service
ServiceDataSnapshots ==
    {None,
     Some(fnOne(PVVX_SERVICE_UUID, PvvxVector)),
     Some(fnOne(PVVX_SERVICE_UUID, SubSeq(PvvxVector, 1, MIN_LENGTH - 1))),
     Some(fnOne(OTHER_SERVICE_UUID, PvvxVector))}

\* decoder::handle_service_data: classification, then the format's handler;
\* Some(reading) when the handler produced one
handle_service_data(map) ==
    LET c == get_packet_type([service_data |-> map])
        r == IF c.type = "Mijia" THEN handle_lywsdcgq_packet(c.data[1])
             ELSE IF c.type = "BTHome" THEN handle_bthome_packet(c.data[1])
             ELSE IF c.type = "Pvvx" THEN handle_pvvx_packet(c.data[1])
             ELSE Outcome("Err", NoFields, {})
    IN IF r.kind = "Ok" THEN Some(r.reading) ELSE None

EmptyProps == [service_data |-> << >>]

Init ==
    /\ sup_pc = "Starting"
    /\ sleep_left = 0
    /\ events = FALSE
    /\ restart_counter = 1
    /\ last_ble_packet = 0
    /\ rx = << >>
    /\ seen_devices = {}
    /\ router_pc = "recv"
    /\ cur_addr = "-"
    /\ data_map = None
    /\ out = None
    /\ restarts_at_decode = 1
    /\ since_scan_end = 0
    /\ note = [a \in Address |-> "none"]
    /\ carried = {}
    /\ seen_lock = "free"
    /\ ts_lock = "free"
    /\ props = EmptyProps
    /\ dec_pc = "ready"
    /\ packet_type = "-"
    /\ data_option = None
    /\ dec_result = None
    /\ printed = None

\* ------------------------------------------- discovery + watchdog task
SinceCap == cooldown + ReinitDelay + 1

\* The start of a session beginning with an empty seen_devices
StartOk_clears_seen ==
    /\ sup_pc = "Starting"
    /\ sup_pc' = "Scanning"
    /\ events' = TRUE
    /\ sleep_left' = PollInterval
    /\ since_scan_end' = 0
    /\ seen_devices' = {}
    /\ UNCHANGED << restart_counter, last_ble_packet, rx, router_pc, cur_addr,
                    data_map, out, restarts_at_decode, note, carried, decVars,
                    lockVars >>

\* adapter.discover_devices() succeeds: the select loop is entered
StartOk ==
    /\ sup_pc = "Starting"
    /\ sup_pc' = "Scanning"
    /\ events' = TRUE
    /\ sleep_left' = PollInterval
    /\ since_scan_end' = 0
    /\ UNCHANGED << restart_counter, last_ble_packet, routerVars,
                    restarts_at_decode, note, carried, decVars, lockVars >>

\* adapter.discover_devices() fails: sleep(cooldown), continue
StartErr ==
    /\ sup_pc = "Starting"
    /\ sup_pc' = "StartFailed"
    /\ sleep_left' = cooldown
    /\ UNCHANGED << events, restart_counter, last_ble_packet, routerVars,
                    histVars, decVars, lockVars >>

\* The retry without the sleep(cooldown) before it
StartRetry_no_wait ==
    /\ sup_pc = "StartFailed"
    /\ sup_pc' = "Starting"
    /\ UNCHANGED << sleep_left, events, restart_counter, last_ble_packet,
                    routerVars, histVars, decVars, lockVars >>

\* sleep(cooldown) of the Err arm is over: continue
StartRetry ==
    /\ sup_pc = "StartFailed"
    /\ sleep_left = 0
    /\ sup_pc' = "Starting"
    /\ UNCHANGED << sleep_left, events, restart_counter, last_ble_packet,
                    routerVars, histVars, decVars, lockVars >>

\* The notification arm sending to the front of the queue
Forward_prepends(evt) ==
    /\ sup_pc = "Scanning"
    /\ Len(rx) < MaxQueue
    /\ rx' = << evt >> \o rx
    /\ sleep_left' = PollInterval
    /\ UNCHANGED << sup_pc, events, restart_counter, last_ble_packet,
                    seen_devices, router_pc, cur_addr, data_map, out,
                    histVars, decVars, lockVars >>

\* The notification arm as it was before the timestamp update was taken out
\* of it: forwarding also resets the watchdog clock
Forward_stamps(evt) ==
    /\ sup_pc = "Scanning"
    /\ Len(rx) < MaxQueue
    /\ rx' = Append(rx, evt)
    /\ sleep_left' = PollInterval
    /\ last_ble_packet' = 0
    /\ UNCHANGED << sup_pc, events, restart_counter,
                    seen_devices, router_pc, cur_addr, data_map, out,
                    histVars, decVars, lockVars >>

\* select arm events.next() = Some(DeviceAdded | DeviceRemoved): forward it;
\* the next iteration of the loop creates a new sleep
Forward(evt) ==
    /\ sup_pc = "Scanning"
    /\ Len(rx) < MaxQueue
    /\ rx' = Append(rx, evt)
    /\ sleep_left' = PollInterval
    /\ UNCHANGED << sup_pc, events, restart_counter, last_ble_packet,
                    seen_devices, router_pc, cur_addr, data_map, out,
                    histVars, decVars, lockVars >>

\* select arm events.next() = Some(_): any other adapter event
OtherEvent ==
    /\ sup_pc = "Scanning"
    /\ sleep_left' = PollInterval
    /\ UNCHANGED << sup_pc, events, restart_counter, last_ble_packet,
                    routerVars, histVars, decVars, lockVars >>

\* The None arm counting the end of the stream as a restart
StreamEnd_counts ==
    /\ sup_pc = "Scanning"
    /\ sup_pc' = "Delay"
    /\ sleep_left' = ReinitDelay
    /\ since_scan_end' = 0
    /\ carried' = seen_devices
    /\ restart_counter' = Min(restart_counter + 1, MaxRestarts)
    /\ UNCHANGED << events, last_ble_packet, routerVars,
                    restarts_at_decode, note, decVars, lockVars >>

\* select arm events.next() = None: break, then the post-loop sleep; the
\* ended stream stays bound to `events` until the loop body is left
StreamEnd ==
    /\ sup_pc = "Scanning"
    /\ sup_pc' = "Delay"
    /\ sleep_left' = ReinitDelay
    /\ since_scan_end' = 0
    /\ carried' = seen_devices
    /\ UNCHANGED << events, restart_counter, last_ble_packet, routerVars,
                    restarts_at_decode, note, decVars, lockVars >>

\* select arm sleep(5s): the watchdog check
WatchdogArm ==
    /\ sup_pc = "Scanning"
    /\ sleep_left = 0
    /\ ts_lock = "free"
    /\ LET elapsed == last_ble_packet IN
       IF elapsed > watchdog
       THEN /\ restart_counter < MaxRestarts
            /\ restart_counter' = restart_counter + 1
            /\ events' = FALSE
            /\ sup_pc' = "Cooldown"
            /\ sleep_left' = cooldown
            /\ since_scan_end' = 0
            /\ carried' = seen_devices
       ELSE /\ sleep_left' = PollInterval
            /\ UNCHANGED << sup_pc, events, restart_counter, since_scan_end,
                            carried >>
    /\ UNCHANGED << last_ble_packet, routerVars, restarts_at_decode, note,
                    decVars, lockVars >>

\* sleep(cooldown) of the watchdog arm is over: break, then the post-loop sleep
CooldownDone ==
    /\ sup_pc = "Cooldown"
    /\ sleep_left = 0
    /\ sup_pc' = "Delay"
    /\ sleep_left' = ReinitDelay
    /\ UNCHANGED << events, restart_counter, last_ble_packet, routerVars,
                    histVars, decVars, lockVars >>

\* The end of the loop body with the stream outliving the iteration
DelayDone_keeps_stream ==
    /\ sup_pc = "Delay"
    /\ sleep_left = 0
    /\ sup_pc' = "Starting"
    /\ UNCHANGED << sleep_left, events, restart_counter, last_ble_packet,
                    routerVars, histVars, decVars, lockVars >>

\* the post-loop sleep is over: the loop body ends, which drops `events` if
\* the watchdog arm has not dropped it already; next iteration of the outer
\* loop
DelayDone ==
    /\ sup_pc = "Delay"
    /\ sleep_left = 0
    /\ sup_pc' = "Starting"
    /\ events' = FALSE
    /\ UNCHANGED << sleep_left, restart_counter, last_ble_packet,
                    routerVars, histVars, decVars, lockVars >>

\* ----------------------------------------------- event processing loop
\* handle_device taking the timestamp lock on entry and keeping it while
\* the adapter queries are awaited
RecvAdded_locks_timestamp ==
    /\ router_pc = "recv"
    /\ rx # << >>
    /\ Head(rx).kind = "DeviceAdded"
    /\ seen_lock = "free"
    /\ rx' = Tail(rx)
    /\ IF Head(rx).addr \notin seen_devices
       THEN /\ seen_devices' = seen_devices \cup {Head(rx).addr}
            /\ router_pc' = "handle_device"
            /\ cur_addr' = Head(rx).addr
            /\ seen_lock' = "router"
            /\ ts_lock' = "router"
       ELSE UNCHANGED << seen_devices, router_pc, cur_addr, seen_lock, ts_lock >>
    /\ note' = [note EXCEPT ![Head(rx).addr] =
                  IF Head(rx).addr \in seen_devices
                  THEN IF @ \in {"fetch_failed", "dup_failed"}
                       THEN "dup_failed"
                       ELSE IF Head(rx).addr \in carried /\ sup_pc = "Scanning"
                            THEN "dup_carried" ELSE "dup"
                  ELSE IF @ = "removed" THEN "readded" ELSE "added"]
    /\ UNCHANGED << supVars, last_ble_packet, data_map, out,
                    restarts_at_decode, since_scan_end, carried, decVars >>

\* The DeviceAdded arm without the seen.contains test
RecvAdded_no_seen_test ==
    /\ router_pc = "recv"
    /\ rx # << >>
    /\ Head(rx).kind = "DeviceAdded"
    /\ seen_lock = "free"
    /\ rx' = Tail(rx)
    /\ seen_devices' = seen_devices \cup {Head(rx).addr}
    /\ router_pc' = "handle_device"
    /\ cur_addr' = Head(rx).addr
    /\ seen_lock' = "router"
    /\ note' = [note EXCEPT ![Head(rx).addr] =
                  IF Head(rx).addr \in seen_devices
                  THEN IF @ \in {"fetch_failed", "dup_failed"}
                       THEN "dup_failed"
                       ELSE IF Head(rx).addr \in carried /\ sup_pc = "Scanning"
                            THEN "dup_carried" ELSE "dup"
                  ELSE IF @ = "removed" THEN "readded" ELSE "added"]
    /\ UNCHANGED << supVars, last_ble_packet, data_map, out,
                    restarts_at_decode, since_scan_end, carried, decVars,
                    ts_lock >>

\* rx.recv() = DeviceAdded(addr)
RecvAdded ==
    /\ router_pc = "recv"
    /\ rx # << >>
    /\ Head(rx).kind = "DeviceAdded"
    /\ seen_lock = "free"
    /\ rx' = Tail(rx)
    /\ IF Head(rx).addr \notin seen_devices
       THEN /\ seen_devices' = seen_devices \cup {Head(rx).addr}
            /\ router_pc' = "handle_device"
            /\ cur_addr' = Head(rx).addr
            /\ seen_lock' = "router"
       ELSE UNCHANGED << seen_devices, router_pc, cur_addr, seen_lock >>
    /\ note' = [note EXCEPT ![Head(rx).addr] =
                  IF Head(rx).addr \in seen_devices
                  THEN IF @ \in {"fetch_failed", "dup_failed"}
                       THEN "dup_failed"
                       ELSE IF Head(rx).addr \in carried /\ sup_pc = "Scanning"
                            THEN "dup_carried" ELSE "dup"
                  ELSE IF @ = "removed" THEN "readded" ELSE "added"]
    /\ UNCHANGED << supVars, last_ble_packet, data_map, out,
                    restarts_at_decode, since_scan_end, carried, decVars,
                    ts_lock >>

\* The DeviceRemoved arm without seen.remove
RecvRemoved_keeps_seen ==
    /\ router_pc = "recv"
    /\ rx # << >>
    /\ Head(rx).kind = "DeviceRemoved"
    /\ seen_lock = "free"
    /\ rx' = Tail(rx)
    /\ note' = [note EXCEPT ![Head(rx).addr] = "removed"]
    /\ carried' = carried \ {Head(rx).addr}
    /\ UNCHANGED << supVars, last_ble_packet, seen_devices, router_pc, cur_addr,
                    data_map, out, restarts_at_decode, since_scan_end, decVars,
                    lockVars >>

\* rx.recv() = DeviceRemoved(addr)
RecvRemoved ==
    /\ router_pc = "recv"
    /\ rx # << >>
    /\ Head(rx).kind = "DeviceRemoved"
    /\ seen_lock = "free"
    /\ rx' = Tail(rx)
    /\ seen_devices' = seen_devices \ {Head(rx).addr}
    /\ note' = [note EXCEPT ![Head(rx).addr] = "removed"]
    /\ carried' = carried \ {Head(rx).addr}
    /\ UNCHANGED << supVars, last_ble_packet, router_pc, cur_addr, data_map,
                    out, restarts_at_decode, since_scan_end, decVars, lockVars >>

\* The Err arm taking the address out of seen_devices again
FetchErr_forgets_address ==
    /\ router_pc = "handle_device"
    /\ router_pc' = "recv"
    /\ cur_addr' = "-"
    /\ seen_lock' = "free"
    /\ seen_devices' = seen_devices \ {cur_addr}
    /\ note' = [note EXCEPT ![cur_addr] = "fetch_failed"]
    /\ UNCHANGED << supVars, last_ble_packet, rx, data_map, out,
                    restarts_at_decode, since_scan_end, carried, decVars,
                    ts_lock >>

\* handle_device: one of the adapter queries fails, the error is logged
FetchErr ==
    /\ router_pc = "handle_device"
    /\ router_pc' = "recv"
    /\ cur_addr' = "-"
    /\ seen_lock' = "free"
    /\ note' = [note EXCEPT ![cur_addr] = "fetch_failed"]
    /\ UNCHANGED << supVars, last_ble_packet, rx, seen_devices, data_map, out,
                    restarts_at_decode, since_scan_end, carried, decVars,
                    ts_lock >>

\* handle_device: device.service_data() answers
Fetch(snapshot) ==
    /\ router_pc = "handle_device"
    /\ IF snapshot = None
       THEN /\ router_pc' = "recv"
            /\ cur_addr' = "-"
            /\ seen_lock' = "free"
            /\ UNCHANGED data_map
       ELSE /\ router_pc' = "decode"
            /\ data_map' = snapshot
            /\ UNCHANGED << cur_addr, seen_lock >>
    /\ UNCHANGED << supVars, last_ble_packet, rx, seen_devices, out,
                    histVars, decVars, ts_lock >>

\* handle_device: decode the service data; a reading resets the watchdog
Decode ==
    /\ router_pc = "decode"
    /\ LET decoded == handle_service_data(data_map[1]) IN
       IF decoded # None
       THEN /\ ts_lock = "free"
            /\ out' = decoded
            /\ last_ble_packet' = 0
            /\ restarts_at_decode' = restart_counter
       ELSE UNCHANGED << out, last_ble_packet, restarts_at_decode >>
    /\ router_pc' = "recv"
    /\ cur_addr' = "-"
    /\ data_map' = None
    /\ seen_lock' = "free"
    /\ UNCHANGED << supVars, rx, seen_devices, since_scan_end, note, carried,
                    decVars, ts_lock >>

\* ------------------------------------------------------------------ time
Tick ==
    /\ last_ble_packet' = Min(last_ble_packet + 1, MaxAge)
    /\ sleep_left' = Max(sleep_left - 1, 0)
    /\ since_scan_end' = IF sup_pc = "Scanning" THEN since_scan_end
                         ELSE Min(since_scan_end + 1, SinceCap)
    /\ UNCHANGED << sup_pc, events, restart_counter, routerVars,
                    restarts_at_decode, note, carried, decVars, lockVars >>

Next ==
    \/ StartOk
    \/ StartErr
    \/ StartRetry
    \/ \E a \in Address : Forward(DeviceAdded(a))
    \/ \E a \in Address : Forward(DeviceRemoved(a))
    \/ OtherEvent
    \/ StreamEnd
    \/ WatchdogArm
    \/ CooldownDone
    \/ DelayDone
    \/ RecvAdded
    \/ RecvRemoved
    \/ FetchErr
    \/ \E snapshot \in ServiceDataSnapshots : Fetch(snapshot)
    \/ Decode
    \/ Tick

Spec == Init /\ [][Next]_vars

\* The runtime schedules both tasks and time passes; when the sleep of the
\* select loop has completed the select picks its arm again and again
Fairness ==
    /\ WF_vars(Tick)
    /\ SF_vars(WatchdogArm)
    /\ WF_vars(StartRetry) /\ WF_vars(CooldownDone) /\ WF_vars(DelayDone)
    /\ WF_vars(RecvAdded) /\ WF_vars(RecvRemoved)
    /\ WF_vars(Decode)

LiveSpec == Init /\ [][Next]_vars /\ Fairness

\* The discovery + watchdog task on its own (main.rs:50-107): the task
\* spawned at main.rs:50 with the event processing loop not scheduled
SupervisorNext ==
    \/ StartOk
    \/ StartErr
    \/ StartRetry
    \/ \E a \in Address : Forward(DeviceAdded(a))
    \/ \E a \in Address : Forward(DeviceRemoved(a))
    \/ OtherEvent
    \/ StreamEnd
    \/ WatchdogArm
    \/ CooldownDone
    \/ DelayDone
    \/ Tick

SupervisorFairness ==
    /\ WF_vars(Tick)
    /\ WF_vars(StartRetry) /\ WF_vars(CooldownDone) /\ WF_vars(DelayDone)

SupervisorSpec == Init /\ [][SupervisorNext]_vars /\ SupervisorFairness

\* ------------------------------------- decoder.rs driven by its caller
DecoderInit ==
    /\ sup_pc = "Starting"
    /\ sleep_left = 0
    /\ events = FALSE
    /\ restart_counter = 1
    /\ last_ble_packet = 0
    /\ rx = << >>
    /\ seen_devices = {}
    /\ router_pc = "recv"
    /\ cur_addr = "-"
    /\ data_map = None
    /\ out = None
    /\ restarts_at_decode = 1
    /\ since_scan_end = 0
    /\ note = [a \in Address |-> "none"]
    /\ carried = {}
    /\ seen_lock = "free"
    /\ ts_lock = "free"
    /\ props \in PropsSet
    /\ dec_pc = "ready"
    /\ packet_type = "-"
    /\ data_option = None
    /\ dec_result = None
    /\ printed = None

DecoderNext ==
    \/ ClassifyAndDecode /\ UNCHANGED << supVars, last_ble_packet, routerVars, histVars, lockVars >>
    \/ NextAdvertisement /\ UNCHANGED << supVars, last_ble_packet, routerVars, histVars, lockVars >>

DecoderSpec == DecoderInit /\ [][DecoderNext]_vars

\* ================================================================ claims

\* C1: whenever the task is in the select loop and the last decode success
\* is older than the watchdog timeout, the watchdog eventually fires (the
\* task leaves the loop) unless a decode success makes the timestamp young
\* again, whatever notifications arrive.  (The restart counter is below the
\* value the model stops at.)
C1_WatchdogEventuallyFires ==
    (sup_pc = "Scanning" /\ last_ble_packet > watchdog
        /\ restart_counter < MaxRestarts)
    ~> (sup_pc # "Scanning" \/ last_ble_packet <= watchdog)

\* C2: while no decode success occurs, the number of watchdog restarts never
\* exceeds the number of whole watchdog timeouts that have passed since the
\* last decode success (or since program start).
C2_OneRestartPerTimeout ==
    last_ble_packet < MaxAge =>
        (restart_counter - restarts_at_decode) * watchdog <= last_ble_packet

\* C3: the timestamp in last_ble_packet is changed by no step of either task
\* except the decode step of handle_device with a decoded reading (only the
\* passing of time ages it).
C3_TimestampOnlyOnDecode ==
    [][ last_ble_packet' # last_ble_packet =>
          \/ Tick
          \/ /\ router_pc = "decode"
             /\ handle_service_data(data_map[1]) # None
             /\ last_ble_packet' = 0 ]_vars

\* C3 witness: after a watchdog restart, with a device processed that gave
\* no reading, the timestamp is still older than the timeout
C3_Witness ==
    /\ restart_counter > 1
    /\ sup_pc = "Scanning"
    /\ \E a \in Address : note[a] \in {"added", "dup"}
    /\ router_pc = "recv"
    /\ out = None
    /\ last_ble_packet > watchdog

\* C4: a handler either returns a reading or a decode failure, and every
\* offset it indexes is inside the payload it was given.
C4_NoReadOutOfBounds ==
    dec_result # None =>
        /\ dec_result[1].kind \in {"Ok", "Err"}
        /\ \A i \in dec_result[1].reads : i < Len(data_option[1])

\* C5: when the handler reports a decode failure, classify_and_decode
\* returns normally and no reading is printed.
C5_DecodeFailureAbsorbed ==
    (dec_result # None /\ dec_result[1].kind = "Err") =>
        (dec_pc = "returned" /\ printed = None)

\* C6: when the event loop takes a DeviceAdded for an address that is in
\* seen_devices, it goes back to rx.recv() without calling handle_device:
\* nothing is fetched or decoded, no reading is printed, the timestamp and
\* seen_devices stay as they are.
C6_SeenNotReprocessed ==
    [][ ( /\ router_pc = "recv"
          /\ rx # << >>
          /\ Head(rx).kind = "DeviceAdded"
          /\ Head(rx).addr \in seen_devices
          /\ rx' = Tail(rx) )
        => ( /\ router_pc' = "recv"
             /\ data_map' = None
             /\ out' = out
             /\ last_ble_packet' = last_ble_packet
             /\ seen_devices' = seen_devices ) ]_vars

\* C6 witness: a repeated DeviceAdded has been taken and the loop waits again
C6_Witness ==
    \E a \in Address :
        /\ note[a] = "dup"
        /\ a \in seen_devices
        /\ router_pc = "recv"

\* C7: when the last notification processed for an address was a
\* DeviceRemoved, the next DeviceAdded for it puts the address into
\* seen_devices again and handle_device is called for it.
C7_ReaddedAfterRemoval ==
    [][ ( /\ router_pc = "recv"
          /\ rx # << >>
          /\ Head(rx).kind = "DeviceAdded"
          /\ note[Head(rx).addr] = "removed"
          /\ rx' = Tail(rx) )
        => ( /\ Head(rx).addr \in seen_devices'
             /\ router_pc' = "handle_device"
             /\ cur_addr' = Head(rx).addr ) ]_vars

\* C7 witness: handle_device runs for an address added right after its removal
C7_Witness ==
    \E a \in Address :
        /\ note[a] = "readded"
        /\ a \in seen_devices
        /\ router_pc = "handle_device"
        /\ cur_addr = a

\* Priority of the recognized services: Mijia > BTHomeV2 > PVVX
Priority(u) ==
    IF u = MIJIA_SERVICE_UUID THEN 3
    ELSE IF u = BTHOME_SERVICE_UUID THEN 2 ELSE 1
FormatOf(u) ==
    IF u = MIJIA_SERVICE_UUID THEN "Mijia"
    ELSE IF u = BTHOME_SERVICE_UUID THEN "BTHome" ELSE "Pvvx"
Present == DOMAIN props.service_data \cap RecognizedUuids

\* C8: when at least one recognized service is present, the classification
\* is the format of the present service of highest priority, with the bytes
\* stored under that service.
C8_ClassificationPriority ==
    (packet_type # "-" /\ Present # {}) =>
        \E u \in Present :
            /\ \A v \in Present : Priority(u) >= Priority(v)
            /\ packet_type = FormatOf(u)
            /\ data_option = Some(props.service_data[u])

\* C8 witness: an advertisement with all three recognized services and an
\* unknown one, with different bytes under them, has been classified
C8_Witness ==
    /\ packet_type = "Mijia"
    /\ DOMAIN props.service_data = Uuid
    /\ props.service_data[MIJIA_SERVICE_UUID] = MijiaVector
    /\ props.service_data[BTHOME_SERVICE_UUID] = PvvxVector

\* C9: when no recognized service is present, the classification is Other,
\* no handler is called and nothing is printed.
C9_UnknownNotDecoded ==
    (dec_pc # "ready" /\ Present = {}) =>
        /\ packet_type = "Other"
        /\ data_option = None
        /\ dec_result = None
        /\ printed = None
        /\ dec_pc = "returned"

\* C9 witness: an advertisement with only an unknown service went through
C9_Witness ==
    /\ dec_pc = "returned"
    /\ DOMAIN props.service_data = OtherUuids
    /\ packet_type = "Other"

\* C10: whenever the select loop has been left, the next request for a
\* discovery session comes no sooner than the cooldown duration later.
C10_CooldownBeforeNewSession ==
    [][ (sup_pc = "Delay" /\ sup_pc' = "Starting")
        => since_scan_end >= cooldown ]_vars

\* ------------------------------------------------------- decoder claims
\* the payload classified and what the handler did with it
Payload == data_option[1]
Handled == dec_result[1]

\* Length the specification requires for a MijiaV3 sub-layout
RequiredLen(tid) ==
    IF tid = 13 THEN 18 ELSE IF tid = 4 THEN 16 ELSE IF tid = 6 THEN 16 ELSE 15
MijiaAccepted(data) ==
    /\ Len(data) > 11
    /\ data[12] \in {13, 4, 6, 10}
    /\ Len(data) >= RequiredLen(data[12])

\* C12: the MijiaV3 handler returns a reading when the type identifier is
\* one of 0x0D, 0x04, 0x06, 0x0A and the payload has the length of that
\* sub-layout (18, 16, 16, 15), and reports a decode failure otherwise.
C12_MijiaFailureCases ==
    packet_type = "Mijia" =>
        IF MijiaAccepted(Payload) THEN Handled.kind = "Ok"
        ELSE Handled.kind = "Err"

IsHumidityOnly(data) == Len(data) >= 16 /\ data[12] = 6

\* C13 as stated: for a humidity-only payload (0x06, length >= 16) the
\* humidity is the unsigned 16-bit little-endian value at offsets 16-17,
\* times 10 hundredths, and the other fields are absent.
C13_HumidityAt16 ==
    (packet_type = "Mijia" /\ IsHumidityOnly(Payload)) =>
        /\ Handled.kind = "Ok"
        /\ InBounds(Payload, {16, 17})
        /\ Handled.reading =
             SensorData(None, Some(10 * (Payload[17] + 256 * Payload[18])),
                        None, None)

\* C13 amended: for a humidity-only payload (0x06, length >= 16) the
\* humidity is the unsigned 16-bit little-endian value at offsets 14-15,
\* times 10 hundredths, and temperature, battery and voltage are absent.
C13_HumidityAt14 ==
    (packet_type = "Mijia" /\ IsHumidityOnly(Payload)) =>
        /\ Handled.kind = "Ok"
        /\ Handled.reading =
             SensorData(None, Some(10 * (Payload[15] + 256 * Payload[16])),
                        None, None)
        /\ printed = Some(Handled.reading)

\* C13 witness: a humidity-only payload of exactly 16 bytes was decoded
C13_Witness ==
    /\ packet_type = "Mijia"
    /\ Len(Payload) = 16
    /\ Payload[12] = 6
    /\ dec_pc = "returned"
    /\ printed # None
    /\ printed[1].humidity # None

\* The records a tag/value stream holds from offset i on: a tag 0x01 record
\* has one value byte, tags 0x02, 0x03, 0x0C two, any other tag one; the
\* stream ends where the next record is not complete
RECURSIVE RefRecords(_, _)
RefRecords(data, i) ==
    LET remaining == Len(data) - i
        size == IF remaining >= 1 /\ data[i + 1] \in {2, 3, 12} THEN 3 ELSE 2
    IN IF remaining < 2 \/ remaining < size THEN << >>
       ELSE << [tag |-> data[i + 1], value |-> SubSeq(data, i + 2, i + size)] >>
            \o RefRecords(data, i + size)

\* The value of the last record with the tag, as an unsigned number
LastValue(recs, tag) ==
    LET at == {k \in 1 .. Len(recs) : recs[k].tag = tag} IN
    IF at = {} THEN None
    ELSE LET v == recs[CHOOSE k \in at : \A j \in at : j <= k].value
         IN Some(IF Len(v) = 1 THEN v[1] ELSE v[1] + 256 * v[2])
Signed16(opt) ==
    IF opt = None THEN None
    ELSE Some(IF opt[1] >= 32768 THEN opt[1] - 65536 ELSE opt[1])
RefReading(recs) ==
    SensorData(Signed16(LastValue(recs, 2)), LastValue(recs, 3),
               LastValue(recs, 1), LastValue(recs, 12))

\* C14: the BTHomeV2 handler never fails; its result holds exactly the
\* fields of the records that lie left to right behind the header byte (a
\* later record of a tag overriding an earlier one), it stops at the first
\* incomplete record, and it indexes only inside the payload.
C14_BthomeRecords ==
    packet_type = "BTHome" =>
        /\ Handled.kind = "Ok"
        /\ dec_pc = "returned"
        /\ Handled.reading = RefReading(RefRecords(Payload, 1))
        /\ printed = Some(Handled.reading)
        /\ InBounds(Payload, Handled.reads)

\* C14 witness: the vector of the specification gives battery 100 %,
\* temperature 24.29, humidity 62.85
C14_Witness ==
    /\ packet_type = "BTHome"
    /\ Payload = BthomeVector
    /\ printed = Some(SensorData(Some(2429), Some(6285), Some(100), None))

\* C15: the PVVX handler fails with no fields below 15 bytes; from 15 bytes
\* on it returns temperature (signed, bytes 6-7), humidity (bytes 8-9),
\* voltage (bytes 10-11) and battery (byte 12), and every payload with the
\* same bytes 6..12 gives the same reading.
C15_PvvxFields ==
    packet_type = "Pvvx" =>
        IF Len(Payload) < 15
        THEN Handled.kind = "Err" /\ Handled.reading = NoFields
        ELSE /\ Handled.kind = "Ok"
             /\ Handled.reading =
                  SensorData(Signed16(Some(Payload[7] + 256 * Payload[8])),
                             Some(Payload[9] + 256 * Payload[10]),
                             Some(Payload[13]),
                             Some(Payload[11] + 256 * Payload[12]))
             /\ \A q \in Payloads :
                  (Len(q) >= 15 /\ SubSeq(q, 7, 13) = SubSeq(Payload, 7, 13))
                      => handle_pvvx_packet(q).reading = Handled.reading

\* C15 witness: a payload with the measurement bytes of the vector, another
\* MAC, another counter and a trailing byte gives 22.90, 64.25 %, 2.333 V, 16 %
C15_Witness ==
    /\ packet_type = "Pvvx"
    /\ Len(Payload) = 16
    /\ Payload[1] # PvvxVector[1]
    /\ Payload[14] # PvvxVector[14]
    /\ printed = Some(SensorData(Some(2290), Some(6425), Some(16), Some(2333)))

\* C19: the BTHomeV2 handler's result is the result of reading the records
\* of the frame 16 D2 FC 40 + payload from offset 1 of that frame.
C19_BthomeFrameFromOne ==
    packet_type = "BTHome" =>
        Handled.reading =
            RefReading(RefRecords(<<22, 210, 252, 64>> \o Payload, 1))

\* C19 witness: a payload with a header byte and a voltage record was decoded
C19_Witness ==
    /\ packet_type = "BTHome"
    /\ Payload = <<64, 12, 29, 9>>
    /\ printed = Some(SensorData(None, None, None, Some(2333)))

\* ------------------------------------------------ supervisor claims
\* C11: a failed discover_devices() is never fatal.  From "Starting" the
\* task only moves to "Scanning" (a stream was returned) or to
\* "StartFailed" with sleep(cooldown) armed; in "StartFailed" the only
\* things that happen are the countdown of that sleep and, once it is over,
\* the return to "Starting"; "Scanning" is entered from "Starting" only,
\* with a stream; and every failed start is followed by a new attempt, at
\* which the adapter may accept.
C11_StartFailureRetried ==
    /\ [][ /\ sup_pc = "Starting"
                => sup_pc' \in {"Starting", "Scanning", "StartFailed"}
           /\ (sup_pc = "Starting" /\ sup_pc' = "StartFailed")
                => (sleep_left' = cooldown /\ events' = events
                    /\ restart_counter' = restart_counter)
           /\ sup_pc = "StartFailed"
                => sup_pc' \in {"StartFailed", "Starting"}
           /\ (sup_pc = "StartFailed" /\ sup_pc' = "StartFailed")
                => sleep_left' \in {sleep_left, Max(sleep_left - 1, 0)}
           /\ (sup_pc = "StartFailed" /\ sup_pc' = "Starting")
                => sleep_left = 0
           /\ (sup_pc # "Scanning" /\ sup_pc' = "Scanning")
                => (sup_pc = "Starting" /\ events' = TRUE) ]_vars
    /\ (sup_pc = "StartFailed") ~> (sup_pc = "Starting" /\ ENABLED StartOk)

\* C11 witness: a start failed after an earlier session, sleep(cooldown) is
\* over and the retry is about to happen
C11_Witness ==
    /\ sup_pc = "StartFailed"
    /\ sleep_left = 0
    /\ restart_counter > 1
    /\ ENABLED StartRetry


\* C17: the queue between the two tasks changes in two ways only.  The
\* discovery task, in the select loop, appends exactly one notification at
\* the tail (and does nothing else to the session in that step); the event
\* loop, waiting in rx.recv(), takes exactly the head and processes it (a
\* DeviceAdded leaves the address in seen_devices, a DeviceRemoved leaves
\* it out).  Nothing else, a restart of the session included, touches the
\* queue, so nothing is lost, duplicated or reordered.
C17_QueueFifo ==
    [][ rx' # rx =>
          \/ /\ sup_pc = "Scanning"
             /\ \E a \in Address :
                    \E evt \in {DeviceAdded(a), DeviceRemoved(a)} :
                        rx' = Append(rx, evt)
             /\ UNCHANGED << sup_pc, events, restart_counter, seen_devices,
                             router_pc, note >>
          \/ /\ router_pc = "recv"
             /\ rx # << >>
             /\ rx' = Tail(rx)
             /\ UNCHANGED supVars
             /\ IF Head(rx).kind = "DeviceAdded"
                THEN /\ Head(rx).addr \in seen_devices'
                     /\ note'[Head(rx).addr] \in
                            {"added", "readded", "dup", "dup_carried",
                             "dup_failed"}
                ELSE /\ Head(rx).addr \notin seen_devices'
                     /\ note'[Head(rx).addr] = "removed" ]_vars

\* C17 witness: two different notifications wait in the queue, in the order
\* they were forwarded, in a session that follows a restart
C17_Witness ==
    /\ Len(rx) = 2
    /\ rx[1].kind = "DeviceRemoved"
    /\ rx[2].kind = "DeviceAdded"
    /\ restart_counter > 1
    /\ sup_pc = "Scanning"
    /\ router_pc = "recv"

\* C18: restart_counter changes only in the watchdog arm of the select
\* loop, when the sleep is over and the timestamp is older than the
\* timeout, and then by exactly one; every restart the watchdog triggers
\* (select loop to cooldown) counts; no other step of either task changes it.
C18_RestartCounter ==
    [][ /\ restart_counter' >= restart_counter
        /\ restart_counter' # restart_counter
             => /\ restart_counter' = restart_counter + 1
                /\ sup_pc = "Scanning"
                /\ sleep_left = 0
                /\ last_ble_packet > watchdog
                /\ sup_pc' = "Cooldown"
                /\ UNCHANGED << routerVars, last_ble_packet >>
        /\ (sup_pc = "Scanning" /\ sup_pc' = "Cooldown")
             => restart_counter' = restart_counter + 1 ]_vars

\* C18 witness: the watchdog has restarted the session twice and the
\* second cooldown has just begun
C18_Witness ==
    /\ restart_counter = 3
    /\ sup_pc = "Cooldown"
    /\ sleep_left = cooldown


\* C16: the Mutex around last_ble_packet is held by neither task at any
\* point where a task can be suspended (it is taken and released inside one
\* statement), and the Mutex around seen_devices is held by the event loop
\* exactly while it is inside handle_device.  So when the sleep of the
\* select loop is over the watchdog arm can run whatever the event loop is
\* doing, and the event loop can always take its next step: no state has
\* a task waiting for a lock.
C16_WatchdogNeverBlocked ==
    /\ ts_lock = "free"
    /\ seen_lock = IF router_pc \in {"handle_device", "decode"}
                   THEN "router" ELSE "free"
    /\ ( /\ sup_pc = "Scanning"
         /\ sleep_left = 0
         /\ (last_ble_packet > watchdog => restart_counter < MaxRestarts) )
           => ENABLED WatchdogArm
    /\ router_pc = "handle_device" => ENABLED FetchErr
    /\ router_pc = "decode" => ENABLED Decode
    /\ (router_pc = "recv" /\ rx # << >>) => ENABLED (RecvAdded \/ RecvRemoved)

\* C16 witness: the event loop is suspended in an adapter query of
\* handle_device, holding the seen_devices lock, while the sleep of the select
\* loop is over and the timestamp is older than the timeout
C16_Witness ==
    /\ router_pc = "handle_device"
    /\ seen_lock = "router"
    /\ sup_pc = "Scanning"
    /\ sleep_left = 0
    /\ last_ble_packet > watchdog
    /\ ENABLED WatchdogArm


\* C20: leaving the select loop (watchdog or end of stream), the sleeps
\* that follow and the next start do not touch seen_devices: every address
\* that was in the set when the loop was left and has had no DeviceRemoved
\* processed since is still in the set, and a DeviceAdded taken for such an
\* address is dropped without handle_device.
C20_SeenSurvivesRestart ==
    [][ /\ carried' \subseteq seen_devices'
        /\ sup_pc' # sup_pc => seen_devices' = seen_devices
        /\ \A a \in Address :
             ( /\ router_pc = "recv"
               /\ rx # << >>
               /\ Head(rx) = DeviceAdded(a)
               /\ a \in carried
               /\ rx' = Tail(rx) )
             => ( /\ router_pc' = "recv"
                  /\ UNCHANGED << seen_devices, data_map, out,
                                  last_ble_packet >> ) ]_vars

\* C20 witness: in a session started after a watchdog restart a DeviceAdded
\* for an address seen before the restart has been taken and dropped
C20_Witness ==
    \E a \in Address :
        /\ note[a] = "dup_carried"
        /\ a \in carried
        /\ a \in seen_devices
        /\ restart_counter > 1
        /\ sup_pc = "Scanning"
        /\ router_pc = "recv"


\* C21: the task owns at most one discovery stream, and none whenever it
\* asks the adapter for a new one.  A stream comes into being only by a
\* successful discover_devices() from "Starting", where none is owned; the
\* watchdog arm drops the stream before the cooldown sleep, and a stream
\* that ended is dropped when the loop body is left, before the next
\* discover_devices(); notifications are forwarded only in the select loop,
\* from the stream owned then.
C21_OneSessionAtATime ==
    /\ [][ /\ sup_pc' \in {"Starting", "StartFailed", "Cooldown"}
                => events' = FALSE
           /\ sup_pc' = "Scanning" => events' = TRUE
           /\ (events = FALSE /\ events' = TRUE)
                => (sup_pc = "Starting" /\ sup_pc' = "Scanning")
           /\ (sup_pc = "Scanning" /\ sup_pc' # "Scanning")
                => \/ sup_pc' = "Cooldown" /\ events' = FALSE
                   \/ sup_pc' = "Delay"
           /\ Len(rx') > Len(rx)
                => (sup_pc = "Scanning" /\ events = TRUE /\ events' = TRUE) ]_vars
    /\ [](sup_pc = "Starting" => events = FALSE)

\* C21 witness: a session ran, its stream ended, and the task is about to
\* ask for the next session with no stream left
C21_Witness ==
    /\ sup_pc = "Starting"
    /\ events = FALSE
    /\ restart_counter = 1
    /\ \E a \in Address : note[a] # "none"


\* C22: the address is in seen_devices before handle_device starts its
\* queries and stays there when handle_device returns, with an error or
\* without.  After an error the event loop waits in rx.recv() again; as
\* long as no DeviceRemoved for the address has been processed the address
\* is in the set, and a DeviceAdded taken for it is dropped: no
\* handle_device, no reading, no timestamp update.
C22_FailedFetchStaysSeen ==
    [][ /\ router_pc' \in {"handle_device", "decode"}
             => cur_addr' \in seen_devices'
        /\ (router_pc = "handle_device" /\ router_pc' = "recv")
             => (cur_addr \in seen_devices' /\ seen_devices' = seen_devices)
        /\ \A a \in Address :
             /\ (note[a] # "fetch_failed" /\ note'[a] = "fetch_failed")
                  => ( /\ router_pc = "handle_device"
                       /\ cur_addr = a
                       /\ router_pc' = "recv"
                       /\ a \in seen_devices'
                       /\ UNCHANGED << rx, out, last_ble_packet >> )
             /\ note[a] \in {"fetch_failed", "dup_failed"}
                  => /\ a \in seen_devices
                     /\ ( /\ router_pc = "recv"
                          /\ rx # << >>
                          /\ Head(rx) = DeviceAdded(a)
                          /\ rx' = Tail(rx) )
                        => ( /\ router_pc' = "recv"
                             /\ UNCHANGED << seen_devices, data_map, out,
                                             last_ble_packet >> )
                     /\ note'[a] \notin {"fetch_failed", "dup_failed"}
                        => ( /\ Head(rx) = DeviceRemoved(a)
                             /\ rx' = Tail(rx)
                             /\ a \notin seen_devices' ) ]_vars

\* C22 witness: handle_device failed for an address, a further DeviceAdded
\* for it has been taken and dropped, and the loop waits again
C22_Witness ==
    \E a \in Address :
        /\ note[a] = "dup_failed"
        /\ a \in seen_devices
        /\ router_pc = "recv"
        /\ out = None

============================================================================
